---- MODULE Spec2Model ----
(***************************************************************************)
(* Chroma, the GBA core's cycle scheduler (Gba::Core, Gba::Cpu::Execute)   *)
(* and the emulator's command line options (Emu::ParseOptions), its ROM,   *)
(* save game and BIOS file checks and the Game Boy cartridge header        *)
(* (Gb::CartridgeHeader).                                                  *)
(*                                                                         *)
(* Core::EmulatorLoop, Core::UpdateHardware, Core::HaltCycles and the      *)
(* option parsers are translated from their sources.  Cpu::Execute, the    *)
(* LCD, the timers' Tick/NextEvent and the memory's interrupt registers    *)
(* are declared or called in the sources but defined elsewhere; they are   *)
(* modelled from the design document (sections 4.3 and 6).                 *)
(***************************************************************************)
EXTENDS Integers, Sequences, FiniteSets, TLC

VARIABLES
    \* ---- Gba::Core and Gba::Cpu during Cpu::Execute ----
    core,             \* the hardware: cpu halt flag, lcd, timers, IE/IF, tick log
    prog,             \* the guest program: a cyclic sequence of instruction kinds
    t1, t2,           \* the two scheduling quanta requested by the driver
    call,             \* number of Execute calls started
    executing,        \* TRUE while inside Cpu::Execute
    target_cycles,    \* Execute's argument
    cycles,           \* Execute's running cycle counter
    ret,              \* value returned by the last Execute call
    consumed,         \* cycles consumed by all finished Execute calls
    steps,            \* the steps taken so far: <<kind, cost>>
    core0,            \* the hardware as it was before the first call
    halt_snap,        \* the hardware and the time when the last halt began
    \* ---- Core::EmulatorLoop ----
    loop_pc, quit, pause, old_pause, frame_advance, overspent_cycles,
    frames, last_target, last_ret, prev_ret, total_cycles, last_iter,
    \* ---- Core::HaltCycles as a function of what the peripherals report ----
    hc,
    \* ---- Emu option parsing ----
    tokens, opt,
    \* ---- Emu file checks and Gb::CartridgeHeader ----
    rom_file,         \* CheckRomFile: what the file system holds at filename
    rom_path,         \* SaveGamePath's argument
    save_in,          \* LoadSaveGame: the cartridge header and the save file
    bios_files,       \* LoadGbaBios: the three candidate BIOS files
    rom,              \* CartridgeHeader: the constructor's arguments, with the
                      \* header bytes of the ROM image by their address
    out               \* the function called and what it returned or threw

vars == <<core, prog, t1, t2, call, executing, target_cycles, cycles, ret,
          consumed, steps, core0, halt_snap,
          loop_pc, quit, pause, old_pause, frame_advance, overspent_cycles,
          frames, last_target, last_ret, prev_ret, total_cycles, last_iter,
          hc, tokens, opt, rom_file, rom_path, save_in, bios_files, rom, out>>

execVars == <<core, prog, t1, t2, call, executing, target_cycles, cycles, ret,
              consumed, steps, core0, halt_snap>>
loopVars == <<loop_pc, quit, pause, old_pause, frame_advance, overspent_cycles,
              frames, last_target, last_ret, prev_ret, total_cycles, last_iter>>
optVars == <<tokens, opt>>
hostVars == <<rom_file, rom_path, save_in, bios_files, rom, out>>

-----------------------------------------------------------------------------
(* Bounds of the model *)

MaxTarget == 4        \* quanta t1, t2 range over 1..MaxTarget
ProgLen == 2          \* length of the cyclic guest program
MemCost == 3          \* cycle cost of the expensive instruction kind
LcdPeriod == 3        \* cycles between two LCD events
MaxNext == 3          \* largest NextEvent() value fed to HaltCycles directly
MaxFrames == 3        \* frames run by the emulator loop
MaxOverspend == 2     \* largest overspend Execute reports to the emulator loop
MaxTokens == 3        \* command line arguments

(* Program constants *)

cycles_per_frame == 280896
NumTimers == 4

Min(a, b) == IF a < b THEN a ELSE b
Max(a, b) == IF a > b THEN a ELSE b

TimerIds == 0 .. (NumTimers - 1)

\* Interrupt sources: Interrupt::Timer0 << timer.id for the timers, and the LCD's.
InterruptTimer(id) == id
InterruptLcd == NumTimers
Interrupts == 0 .. NumTimers

RECURSIVE SumCosts(_)
SumCosts(s) == IF s = <<>> THEN 0 ELSE s[1][2] + SumCosts(Tail(s))

-----------------------------------------------------------------------------
(* The peripherals *)

\* Cycles between two overflows of timer id (its reload value and prescaler).
TimerPeriod(id) == id + 2

\* Lcd::NextEvent: cycles until the LCD's next event.
LcdNextEvent(lcd) == LcdPeriod - lcd

\* Lcd::Update: advance the LCD clock; an event requests the LCD interrupt.
LcdUpdate(m, c) ==
    LET new == m.lcd + c IN
    [m EXCEPT !.lcd = new % LcdPeriod,
              !.iflags = IF new >= LcdPeriod THEN @ \cup {InterruptLcd} ELSE @,
              !.log = Append(@, <<"lcd", c>>)]

\* Timer::NextEvent: cycles until the timer overflows; 0 when nothing is pending.
TimerNextEvent(t, id) == IF t.running THEN TimerPeriod(id) - t.clock ELSE 0

TimerName(id) == <<"timer0", "timer1", "timer2", "timer3">>[id + 1]

\* Timer::Tick: advance a running timer by c cycles.
TimerTick(t, id, c) ==
    IF t.running THEN [t EXCEPT !.clock = (t.clock + c) % TimerPeriod(id)] ELSE t

\* Timer::Tick: an overflow within the c cycles requests the timer's interrupt.
TimerOverflows(t, id, c) == t.running /\ t.clock + c >= TimerPeriod(id)

\* Memory::DelayedSaveOp: the save countdown receives the cycles.
DelayedSaveOp(m, c) == [m EXCEPT !.log = Append(@, <<"save", c>>)]

\* Memory::InterruptEnabled, on the interrupt enable register ie.
InterruptEnabled(ie, irq) == irq \in ie

\* An enabled interrupt is requested.
InterruptPending(m) == (m.ie \cap m.iflags) # {}

-----------------------------------------------------------------------------
(* Core::UpdateHardware *)

\* for (auto& timer : timers) timer.Tick(cycles), over the timers ids.
TickEach(m, ids, c) ==
    [m EXCEPT !.timers = [id \in TimerIds |->
                             IF id \in ids THEN TimerTick(m.timers[id], id, c) ELSE @[id]],
              !.iflags = @ \cup {InterruptTimer(id) :
                                    id \in {i \in ids : TimerOverflows(m.timers[i], i, c)}},
              !.log = @ \o [i \in 1 .. Cardinality(ids) |-> <<TimerName(i - 1), c>>]]

\* (mutant) the loop stops one timer short.
TickTimersShort(m, c) == TickEach(m, 0 .. (NumTimers - 2), c)

TickTimers(m, c) == TickEach(m, TimerIds, c)

\* (mutant) the timers are ticked before the LCD.
UpdateHardwareTimersFirst(m, c) ==
    IF c = 0 THEN m
    ELSE DelayedSaveOp(LcdUpdate(TickTimers(m, c), c), c)

UpdateHardware(m, c) ==
    IF c = 0 THEN m
    ELSE DelayedSaveOp(TickTimers(LcdUpdate(m, c), c), c)

-----------------------------------------------------------------------------
(* Core::HaltCycles *)

RECURSIVE HaltFold(_, _, _, _)
HaltFold(halt_cycles, id, timer_next, ie) ==
    IF id >= NumTimers THEN halt_cycles
    ELSE IF ~InterruptEnabled(ie, InterruptTimer(id))
         THEN HaltFold(halt_cycles, id + 1, timer_next, ie)
         ELSE IF timer_next[id] # 0
              THEN HaltFold(Min(halt_cycles, timer_next[id]), id + 1, timer_next, ie)
              ELSE HaltFold(halt_cycles, id + 1, timer_next, ie)

\* (mutant) the skip is one less, not one more, than the nearest event.
HaltCyclesOfMinusOne(lcd_next, timer_next, ie, remaining_cpu_cycles) ==
    Min(HaltFold(lcd_next, 0, timer_next, ie) - 1, remaining_cpu_cycles)

\* (mutant) every timer counts, whether its interrupt is enabled or not.
HaltCyclesOfAllTimers(lcd_next, timer_next, ie, remaining_cpu_cycles) ==
    Min(HaltFold(lcd_next, 0, timer_next, TimerIds) + 1, remaining_cpu_cycles)

\* What HaltCycles computes from the values the peripherals report.
HaltCyclesOf(lcd_next, timer_next, ie, remaining_cpu_cycles) ==
    Min(HaltFold(lcd_next, 0, timer_next, ie) + 1, remaining_cpu_cycles)

HaltCycles(m, remaining_cpu_cycles) ==
    HaltCyclesOf(LcdNextEvent(m.lcd),
                 [id \in TimerIds |-> TimerNextEvent(m.timers[id], id)],
                 m.ie, remaining_cpu_cycles)

-----------------------------------------------------------------------------
(* Cpu::Execute *)

InstrKinds == {"alu", "mem", "halt", "ack"}

InstrCost(kind) == IF kind = "mem" THEN MemCost ELSE 1

\* One executed instruction: its effect, then the peripherals get its cost.
StepInstr(m) ==
    LET kind == prog[m.ip]
        c == InstrCost(kind)
        m1 == [m EXCEPT !.ip = (m.ip % Len(prog)) + 1,
                        !.halted = (kind = "halt"),
                        !.iflags = IF kind = "ack" THEN {} ELSE @]
    IN  [m |-> UpdateHardware(m1, c), cost |-> c, kind |-> "instr"]

\* One halt fast-forward step: skip to the next event, then look for an interrupt.
StepHalt(m, remaining) ==
    LET h == HaltCycles(m, remaining)
        m1 == UpdateHardware(m, h)
    IN  [m |-> [m1 EXCEPT !.halted = ~InterruptPending(m1)], cost |-> h, kind |-> "halt"]

ExecStep(m, remaining) == IF m.halted THEN StepHalt(m, remaining) ELSE StepInstr(m)

\* The whole of Execute(target) from hardware state m: the final state and counter.
RECURSIVE RunExecute(_, _, _)
RunExecute(m, cyc, target) ==
    IF cyc >= target THEN [m |-> m, cycles |-> cyc]
    ELSE LET s == ExecStep(m, target - cyc)
         IN  IF s.cost <= 0 THEN [m |-> s.m, cycles |-> cyc]
             ELSE RunExecute(s.m, cyc + s.cost, target)

\* The timer configurations and interrupt enable registers the runs start from.
InitRunning == {{}, {0}, {1}, {3}, {0, 2}, TimerIds}
InitEnabled == {{}, {InterruptLcd}, {0}, {1, 3}, {0, 2, InterruptLcd}, Interrupts}

\* The hardware and driver state before the first Execute call.
Loaded(p, run, en, q1, q2) ==
    LET m == [halted |-> FALSE, ip |-> 1, lcd |-> 0,
              timers |-> [id \in TimerIds |-> [running |-> id \in run, clock |-> 0]],
              ie |-> en, iflags |-> {}, log |-> <<>>]
    IN  [prog |-> p, core |-> m, t1 |-> q1, t2 |-> q2, call |-> 0, executing |-> FALSE,
         target_cycles |-> 0, cycles |-> 0, ret |-> 0, consumed |-> 0, steps |-> <<>>,
         core0 |-> m, halt_snap |-> [m |-> m, at |-> 0]]

Configs(runs, enables) ==
    {Loaded(p, run, en, q1, q2) :
        p \in [1 .. ProgLen -> InstrKinds], run \in runs, en \in enables,
        q1 \in 1 .. MaxTarget, q2 \in 1 .. MaxTarget}

ExecIs(c) ==
    /\ prog = c.prog /\ core = c.core /\ t1 = c.t1 /\ t2 = c.t2
    /\ call = c.call /\ executing = c.executing
    /\ target_cycles = c.target_cycles /\ cycles = c.cycles /\ ret = c.ret
    /\ consumed = c.consumed /\ steps = c.steps /\ core0 = c.core0
    /\ halt_snap = c.halt_snap

InitCore == \E c \in Configs(InitRunning, InitEnabled) : ExecIs(c)

\* No program loaded yet.
InitUnloaded == ExecIs(Loaded(<<>>, {}, {}, 1, 1))

\* A program is loaded: a core that no interrupt wakes, or one that timer 0 wakes.
LoadProgram ==
    /\ prog = <<>>
    /\ \E c \in Configs({{}, {0}}, {{}, {0}}) :
          /\ prog' = c.prog /\ core' = c.core /\ t1' = c.t1 /\ t2' = c.t2
          /\ call' = c.call /\ executing' = c.executing
          /\ target_cycles' = c.target_cycles /\ cycles' = c.cycles /\ ret' = c.ret
          /\ consumed' = c.consumed /\ steps' = c.steps /\ core0' = c.core0
          /\ halt_snap' = c.halt_snap

\* The driver calls Execute, carrying the previous call's overspend forward.
CallExecute ==
    /\ prog # <<>>
    /\ ~executing
    /\ call < 2
    /\ call' = call + 1
    /\ target_cycles' = (IF call = 0 THEN t1 ELSE t2) + ret
    /\ cycles' = 0
    /\ executing' = TRUE
    /\ UNCHANGED <<core, prog, t1, t2, ret, consumed, steps, core0, halt_snap>>

\* One iteration of Execute's loop.
ExecLoop ==
    /\ executing
    /\ cycles < target_cycles
    /\ \E s \in {ExecStep(core, target_cycles - cycles)} :
          /\ core' = s.m
          /\ cycles' = cycles + s.cost
          /\ steps' = Append(steps, <<s.kind, s.cost>>)
          /\ halt_snap' =
                IF ~core.halted /\ s.m.halted
                THEN [m |-> s.m, at |-> SumCosts(steps) + s.cost]
                ELSE halt_snap
    /\ UNCHANGED <<prog, t1, t2, call, executing, target_cycles, ret, consumed, core0>>

\* (mutant) Execute returns consumed minus target.
ExecReturnFlipped ==
    /\ executing
    /\ cycles >= target_cycles
    /\ ret' = cycles - target_cycles
    /\ consumed' = consumed + cycles
    /\ executing' = FALSE
    /\ UNCHANGED <<core, prog, t1, t2, call, target_cycles, cycles, steps, core0, halt_snap>>

\* Execute returns the difference between its target and the cycles it consumed.
ExecReturn ==
    /\ executing
    /\ cycles >= target_cycles
    /\ ret' = target_cycles - cycles
    /\ consumed' = consumed + cycles
    /\ executing' = FALSE
    /\ UNCHANGED <<core, prog, t1, t2, call, target_cycles, cycles, steps, core0, halt_snap>>

-----------------------------------------------------------------------------
-----------------------------------------------------------------------------
(* Core::HaltCycles applied to what the peripherals report *)

InitHalt ==
    \E l \in 0 .. MaxNext, tn \in [TimerIds -> 0 .. MaxNext],
       en \in SUBSET TimerIds, r \in 1 .. (MaxNext + 2) :
        hc = [lcd_next |-> l, timer_next |-> tn, ie |-> en, remaining |-> r,
              result |-> 0, called |-> FALSE]

CallHaltCycles ==
    /\ ~hc.called
    /\ hc' = [hc EXCEPT !.result = HaltCyclesOf(hc.lcd_next, hc.timer_next, hc.ie,
                                                hc.remaining),
                        !.called = TRUE]

-----------------------------------------------------------------------------
(* Core::EmulatorLoop *)

\* What Cpu::Execute(target) may return: zero, or the overspend of its last step.
ExecuteReturns(target) == (0 - MaxOverspend) .. 0

InitLoop ==
    /\ loop_pc = "top" /\ quit = FALSE /\ pause = FALSE /\ old_pause = FALSE
    /\ frame_advance = FALSE /\ overspent_cycles = 0
    /\ frames = 0 /\ last_target = 0 /\ last_ret = 0 /\ prev_ret = 0
    /\ total_cycles = 0 /\ last_iter = "none"

ghostVars == <<frames, last_target, last_ret, prev_ret, total_cycles, last_iter>>

\* while (!quit): enter the body at PollEvents, or leave the loop.
LoopTest ==
    /\ loop_pc = "top"
    /\ loop_pc' = IF quit THEN "exit" ELSE "poll"
    /\ UNCHANGED <<quit, pause, old_pause, frame_advance, overspent_cycles, ghostVars>>

\* The callbacks PollEvents may run (RegisterCallbacks).
OnQuit ==
    /\ loop_pc = "poll"
    /\ quit' = TRUE
    /\ UNCHANGED <<loop_pc, pause, old_pause, frame_advance, overspent_cycles, ghostVars>>

OnPause ==
    /\ loop_pc = "poll"
    /\ pause' = ~pause
    /\ UNCHANGED <<loop_pc, quit, old_pause, frame_advance, overspent_cycles, ghostVars>>

OnHideWindow ==
    /\ loop_pc = "poll"
    /\ old_pause' = pause
    /\ pause' = TRUE
    /\ UNCHANGED <<loop_pc, quit, frame_advance, overspent_cycles, ghostVars>>

OnShowWindow ==
    /\ loop_pc = "poll"
    /\ pause' = old_pause
    /\ UNCHANGED <<loop_pc, quit, old_pause, frame_advance, overspent_cycles, ghostVars>>

OnFrameAdvance ==
    /\ loop_pc = "poll"
    /\ frame_advance' = TRUE
    /\ UNCHANGED <<loop_pc, quit, pause, old_pause, overspent_cycles, ghostVars>>

\* PollEvents has returned and the emulator is paused: render and continue.
LoopPaused ==
    /\ loop_pc = "poll"
    /\ pause /\ ~frame_advance
    /\ loop_pc' = "top"
    /\ last_iter' = "paused"
    /\ UNCHANGED <<quit, pause, old_pause, frame_advance, overspent_cycles,
                   frames, last_target, last_ret, prev_ret, total_cycles>>

\* (mutant) the frame's target ignores the carried overspend.
LoopFrameNoCarry ==
    /\ loop_pc = "poll"
    /\ ~(pause /\ ~frame_advance)
    /\ frames < MaxFrames
    /\ frame_advance' = FALSE
    /\ \E r \in ExecuteReturns(cycles_per_frame) :
          /\ overspent_cycles' = r
          /\ last_target' = cycles_per_frame
          /\ prev_ret' = last_ret
          /\ last_ret' = r
          /\ total_cycles' = total_cycles + (cycles_per_frame - r)
    /\ frames' = frames + 1
    /\ last_iter' = "frame"
    /\ loop_pc' = "top"
    /\ UNCHANGED <<quit, pause, old_pause>>

\* PollEvents has returned and a frame runs: Execute gets the frame's cycles plus
\* the carried overspend, and what it returns is carried to the next frame.
LoopFrame ==
    /\ loop_pc = "poll"
    /\ ~(pause /\ ~frame_advance)
    /\ frames < MaxFrames
    /\ frame_advance' = FALSE
    /\ LET target == cycles_per_frame + overspent_cycles
       IN  \E r \in ExecuteReturns(target) :
              /\ overspent_cycles' = r
              /\ last_target' = target
              /\ prev_ret' = last_ret
              /\ last_ret' = r
              /\ total_cycles' = total_cycles + (target - r)
    /\ frames' = frames + 1
    /\ last_iter' = "frame"
    /\ loop_pc' = "top"
    /\ UNCHANGED <<quit, pause, old_pause>>

-----------------------------------------------------------------------------
(* Emu option parsing.  A string is a sequence of characters. *)

OptS == <<"-", "s">>
OptL == <<"-", "l">>
StrTrace == <<"t", "r", "a", "c", "e">>
StrRegs == <<"r", "e", "g", "s">>
StrRegisters == <<"r", "e", "g", "i", "s", "t", "e", "r", "s">>
StrTimer == <<"t", "i", "m", "e", "r">>
StrLcd == <<"l", "c", "d">>
StrRom == <<"r", "o", "m">>

\* The command line arguments the parsers are tried on.
Vocabulary ==
    {OptS, OptL, StrTrace, StrRegs, StrRegisters, StrTimer, StrLcd, StrRom, <<>>,
     <<"0">>, <<"1">>, <<"1", "5">>, <<"1", "6">>, <<"-", "1">>, <<"7", "x">>,
     <<"4", "2", "9", "4", "9", "6", "7", "2", "9", "6">>}

RECURSIVE SeqsUpTo(_, _)
SeqsUpTo(S, n) ==
    IF n = 0 THEN {<<>>}
    ELSE LET shorter == SeqsUpTo(S, n - 1)
         IN  shorter \cup {Append(q, x) : q \in {r \in shorter : Len(r) = n - 1}, x \in S}

\* std::find: the index of the first token equal to option, or Len + 1.
RECURSIVE Find(_, _, _)
Find(toks, option, i) ==
    IF i > Len(toks) THEN i
    ELSE IF toks[i] = option THEN i ELSE Find(toks, option, i + 1)

ContainsOption(toks, option) == Find(toks, option, 1) <= Len(toks)

GetOptionParam(toks, option) ==
    LET itr == Find(toks, option, 1)
    IN  IF itr <= Len(toks) /\ itr + 1 <= Len(toks) THEN toks[itr + 1] ELSE <<>>

Returns(v) == [kind |-> "ok", value |-> v]
Throws(e) == [kind |-> e, value |-> 0]

DigitChars == <<"0", "1", "2", "3", "4", "5", "6", "7", "8", "9">>
IsDigit(ch) == \E d \in 1 .. 10 : DigitChars[d] = ch
DigitValue(ch) == (CHOOSE d \in 1 .. 10 : DigitChars[d] = ch) - 1

RECURSIVE SkipSpace(_)
SkipSpace(str) ==
    IF str # <<>> /\ str[1] = " " THEN SkipSpace(Tail(str)) ELSE str

IntMax == 2147483647

\* The leading digits of str: how many there are, their value while it is at most
\* INT_MAX, and by how much it is past INT_MAX (0: not, 1: by one, 2: by more).
RECURSIVE LeadingDigits(_, _, _, _)
LeadingDigits(str, acc, n, past) ==
    IF str # <<>> /\ IsDigit(str[1])
    THEN LET d == DigitValue(str[1])
             limit == (IntMax - d) \div 10
             now == IF past > 0 THEN 2
                    ELSE IF acc <= limit THEN 0
                    ELSE IF acc = limit + 1 /\ (IntMax - d) % 10 = 9 THEN 1
                    ELSE 2
         IN  LeadingDigits(Tail(str), IF now = 0 THEN acc * 10 + d ELSE IntMax, n + 1, now)
    ELSE [value |-> acc, count |-> n, past |-> past]

\* std::stoi: leading whitespace, an optional sign, then decimal digits; what
\* follows the digits is ignored.  The result must fit an int.
Stoi(str) ==
    LET s1 == SkipSpace(str)
        signed == s1 # <<>> /\ s1[1] \in {"-", "+"}
        neg == s1 # <<>> /\ s1[1] = "-"
        d == LeadingDigits(IF signed THEN Tail(s1) ELSE s1, 0, 0, 0)
    IN  IF d.count = 0 THEN Throws("invalid_argument")
        ELSE IF d.past = 2 \/ (d.past = 1 /\ ~neg) THEN Throws("out_of_range")
        ELSE IF d.past = 1 THEN Returns(0 - IntMax - 1)
        ELSE Returns(IF neg THEN 0 - d.value ELSE d.value)

\* unsigned int scale = <int>; scale > 15: a negative int converts to 2^32 minus
\* its magnitude, which is above 15.
AsUnsignedExceeds(v, limit) == v < 0 \/ v > limit

GetPixelScale(toks) ==
    LET scale_string == GetOptionParam(toks, OptS)
    IN  IF scale_string # <<>>
        THEN LET parsed == Stoi(scale_string)
             IN  IF parsed.kind # "ok" THEN parsed
                 ELSE IF AsUnsignedExceeds(parsed.value, 15) THEN Throws("invalid_argument")
                 ELSE Returns(parsed.value)
        ELSE Returns(2)

GetLogLevel(toks) ==
    LET log_string == GetOptionParam(toks, OptL)
    IN  IF log_string # <<>>
        THEN IF log_string = StrTrace THEN Returns("Trace")
             ELSE IF log_string = StrRegs \/ log_string = StrRegisters
                  THEN Returns("Registers")
             ELSE IF log_string = StrTimer THEN Returns("Timer")
             ELSE IF log_string = StrLcd THEN Returns("LCD")
             ELSE Returns("Trace")
        ELSE Returns("None")

InitOpts ==
    /\ tokens \in SeqsUpTo(Vocabulary, MaxTokens)
    /\ opt = [fn |-> "none", result |-> Returns(0)]

CallGetPixelScale ==
    /\ opt.fn = "none"
    /\ opt' = [fn |-> "GetPixelScale", result |-> GetPixelScale(tokens)]
    /\ UNCHANGED tokens

CallGetLogLevel ==
    /\ opt.fn = "none"
    /\ opt' = [fn |-> "GetLogLevel", result |-> GetLogLevel(tokens)]
    /\ UNCHANGED tokens

(* Emu::GetGameBoyType *)

OptM == <<"-", "m">>
StrDmg == <<"d", "m", "g">>
StrCgb == <<"c", "g", "b">>
StrAgb == <<"a", "g", "b">>

\* The command line arguments GetGameBoyType is tried on: the three documented
\* names, near misses of them, the option itself, an empty argument and others.
ConsoleVocabulary ==
    {OptM, StrDmg, StrCgb, StrAgb, <<"g", "b", "a">>, <<"D", "M", "G">>,
     <<"d", "m", "g", "x">>, <<"d", "m">>, OptL, StrRom, <<>>}

\* The mutation of GetGameBoyType that falls back to the cartridge's console.
GetGameBoyTypeLenient(toks) ==
    LET gb_string == GetOptionParam(toks, OptM)
    IN  IF gb_string # <<>>
        THEN IF gb_string = StrDmg THEN Returns("DMG")
             ELSE IF gb_string = StrCgb THEN Returns("CGB")
             ELSE IF gb_string = StrAgb THEN Returns("AGB")
             ELSE Returns("Default")
        ELSE Returns("Default")

GetGameBoyType(toks) ==
    LET gb_string == GetOptionParam(toks, OptM)
    IN  IF gb_string # <<>>
        THEN IF gb_string = StrDmg THEN Returns("DMG")
             ELSE IF gb_string = StrCgb THEN Returns("CGB")
             ELSE IF gb_string = StrAgb THEN Returns("AGB")
             ELSE Throws("invalid_argument")
        ELSE Returns("Default")

InitConsole ==
    /\ tokens \in SeqsUpTo(ConsoleVocabulary, MaxTokens)
    /\ opt = [fn |-> "none", result |-> Returns(0)]

CallGetGameBoyType ==
    /\ opt.fn = "none"
    /\ opt' = [fn |-> "GetGameBoyType", result |-> GetGameBoyType(tokens)]
    /\ UNCHANGED tokens

(* Emu::CheckRomFile *)

MaxRomSize == 33554432
MinRomSize == 308
MinGbRomSize == 32768

\* The file sizes around each limit CheckRomFile tests.
RomSizes ==
    {0, MinRomSize - 1, MinRomSize, MinGbRomSize - 1, MinGbRomSize, MaxRomSize,
     MaxRomSize + 1}

\* What stat reports for a path that opens.
FileKinds == {"regular", "directory", "other"}

\* CheckPathIsRegularFile: TRUE when it throws.
CheckPathIsRegularFile(kind) == kind # "regular"

\* A result together with the logo checks made on the way, in order.
Outcome(result, examined) == [result |-> result, examined |-> examined]

\* The mutation of CheckRomFile that accepts a Game Boy ROM of any size.
CheckRomFileAnySize(f) ==
    IF ~f.opens THEN Outcome(Throws("runtime_error"), <<>>)
    ELSE IF CheckPathIsRegularFile(f.kind) THEN Outcome(Throws("runtime_error"), <<>>)
    ELSE IF f.size > MaxRomSize THEN Outcome(Throws("runtime_error"), <<>>)
    ELSE IF f.size < MinRomSize THEN Outcome(Throws("runtime_error"), <<>>)
    ELSE IF f.gba_logo THEN Outcome(Returns("AGB"), <<"gba">>)
    ELSE IF f.gb_logo THEN Outcome(Returns("CGB"), <<"gba", "gb">>)
    ELSE Outcome(Throws("runtime_error"), <<"gba", "gb">>)

CheckRomFile(f) ==
    IF ~f.opens THEN Outcome(Throws("runtime_error"), <<>>)
    ELSE IF CheckPathIsRegularFile(f.kind) THEN Outcome(Throws("runtime_error"), <<>>)
    ELSE IF f.size > MaxRomSize THEN Outcome(Throws("runtime_error"), <<>>)
    ELSE IF f.size < MinRomSize THEN Outcome(Throws("runtime_error"), <<>>)
    ELSE IF f.gba_logo THEN Outcome(Returns("AGB"), <<"gba">>)
    ELSE IF f.gb_logo
         THEN IF f.size < MinGbRomSize
              THEN Outcome(Throws("runtime_error"), <<"gba", "gb">>)
              ELSE Outcome(Returns("CGB"), <<"gba", "gb">>)
    ELSE Outcome(Throws("runtime_error"), <<"gba", "gb">>)

NotCalled == [fn |-> "none", result |-> Returns(0), examined |-> <<>>]

InitRomFile ==
    /\ rom_file \in [opens : BOOLEAN, kind : FileKinds, size : RomSizes,
                     gba_logo : BOOLEAN, gb_logo : BOOLEAN]
    /\ out = NotCalled

CallCheckRomFile ==
    /\ out.fn = "none"
    /\ out' = [fn |-> "CheckRomFile", result |-> CheckRomFile(rom_file).result,
               examined |-> CheckRomFile(rom_file).examined]
    /\ UNCHANGED <<rom_file, rom_path, save_in, bios_files, rom>>

(* Emu::SaveGamePath *)

MaxPath == 5

StrDotSav == <<".", "s", "a", "v">>

\* The characters ROM paths are made of.
PathChars == {".", "s", "a", "v", "/"}

\* std::string::rfind of a character: its last index, 0 for npos.
RFind(str, ch) ==
    IF \E i \in 1 .. Len(str) : str[i] = ch
    THEN CHOOSE i \in 1 .. Len(str) :
             str[i] = ch /\ \A j \in (i + 1) .. Len(str) : str[j] # ch
    ELSE 0

\* The mutation of SaveGamePath that accepts a save file as the ROM.
SaveGamePathOfSave(path) ==
    LET last_dot == RFind(path, ".")
    IN  IF last_dot = 0 THEN Throws("runtime_error")
        ELSE Returns(SubSeq(path, 1, last_dot - 1) \o StrDotSav)

SaveGamePath(path) ==
    LET last_dot == RFind(path, ".")
    IN  IF last_dot = 0 THEN Throws("runtime_error")
        ELSE IF SubSeq(path, last_dot, Len(path)) = StrDotSav
             THEN Throws("runtime_error")
        ELSE Returns(SubSeq(path, 1, last_dot - 1) \o StrDotSav)

InitRomPath ==
    /\ rom_path \in SeqsUpTo(PathChars, MaxPath)
    /\ out = NotCalled

CallSaveGamePath ==
    /\ out.fn = "none"
    /\ out' = [fn |-> "SaveGamePath", result |-> SaveGamePath(rom_path),
               examined |-> <<>>]
    /\ UNCHANGED <<rom_file, rom_path, save_in, bios_files, rom>>

(* Emu::LoadSaveGame and Emu::ReadSaveFile *)

RtcSaveSize == 48
RtcSaveModulus == 1024
MaxSaveSize == 131120

\* The external RAM sizes a cartridge header can hold: those of GetRAMSize and the
\* 0x200 bytes of an MBC2.
RamSizes == {0, 512, 2048, 8192, 32768, 65536, 131072}

\* Save file sizes: empty, each RAM size with and without the RTC data, RTC data
\* alone, sizes off by one, a wrong size with the RTC remainder, and too large.
SaveSizes ==
    {0, RtcSaveSize, 512, 2048, 2049, 2048 + RtcSaveSize, 8192, 8192 + RtcSaveSize,
     9216 + RtcSaveSize, 131072, MaxSaveSize, MaxSaveSize + 1}

\* A std::vector<u8> by its size and what fills it: the file's bytes or zeros.
Vector(size, fill) == [size |-> size, fill |-> IF size = 0 THEN "nothing" ELSE fill]

ReadSaveFile(f) ==
    IF ~f.opens THEN Returns(Vector(0, "zeros"))
    ELSE IF CheckPathIsRegularFile(f.kind) THEN Throws("runtime_error")
    ELSE IF f.size > MaxSaveSize THEN Throws("runtime_error")
    ELSE Returns(Vector(f.size, "file"))

\* The mutation of LoadSaveGame that expects RTC data after every RTC cartridge's save.
LoadSaveGameAlwaysRtc(cart_header, f) ==
    IF cart_header.ext_ram_present
    THEN LET read == ReadSaveFile(f)
         IN  IF read.kind # "ok" THEN read
             ELSE IF read.value.size # 0
                  THEN LET cart_ram_size ==
                               IF cart_header.rtc_present
                               THEN cart_header.ram_size + RtcSaveSize
                               ELSE cart_header.ram_size
                       IN  IF cart_ram_size # read.value.size
                           THEN Throws("runtime_error")
                           ELSE read
             ELSE Returns(Vector(cart_header.ram_size, "zeros"))
    ELSE Returns(Vector(0, "zeros"))

LoadSaveGame(cart_header, f) ==
    IF cart_header.ext_ram_present
    THEN LET read == ReadSaveFile(f)
         IN  IF read.kind # "ok" THEN read
             ELSE IF read.value.size # 0
                  THEN LET cart_ram_size ==
                               IF /\ cart_header.rtc_present
                                  /\ read.value.size % RtcSaveModulus = RtcSaveSize
                               THEN cart_header.ram_size + RtcSaveSize
                               ELSE cart_header.ram_size
                       IN  IF cart_ram_size # read.value.size
                           THEN Throws("runtime_error")
                           ELSE read
             ELSE Returns(Vector(cart_header.ram_size, "zeros"))
    ELSE Returns(Vector(0, "zeros"))

InitSave ==
    /\ save_in \in [header : [ext_ram_present : BOOLEAN, rtc_present : BOOLEAN,
                               ram_size : RamSizes],
                     file : [opens : BOOLEAN, kind : FileKinds, size : SaveSizes]]
    /\ out = NotCalled

CallLoadSaveGame ==
    /\ out.fn = "none"
    /\ out' = [fn |-> "LoadSaveGame",
               result |-> LoadSaveGame(save_in.header, save_in.file),
               examined |-> <<>>]
    /\ UNCHANGED <<rom_file, rom_path, save_in, bios_files, rom>>

(* Emu::LoadGbaBios *)

BiosSize == 16384
WordBytes == 4
BiosRetries == 2

\* bios_path after 0, 1 and 2 prefixes of "../".
BiosPaths == <<"gba_bios.bin", "../gba_bios.bin", "../../gba_bios.bin">>

\* What a candidate path holds: nothing that opens, a directory, or a regular file
\* of a size around 16KB.
BiosCandidates ==
    {[opens |-> FALSE, kind |-> "regular", size |-> 0],
     [opens |-> TRUE, kind |-> "directory", size |-> 0]}
    \cup [opens : {TRUE}, kind : {"regular"},
          size : {0, BiosSize - 1, BiosSize, BiosSize + 1}]

\* The retry loop: the stream bios_file is good after an open that succeeded and
\* failed otherwise; close() leaves a failed stream failed and a successful open()
\* clears it.  Returns the index of the path the stream ends on, whether it is good,
\* and the paths opened.
RECURSIVE OpenBios(_, _, _, _, _, _)
OpenBios(files, retries, i, at, good, tried) ==
    IF i >= retries \/ good THEN [at |-> at, good |-> good, tried |-> tried]
    ELSE OpenBios(files, retries, i + 1, at + 1, files[at + 1].opens,
                  Append(tried, BiosPaths[at + 1]))

BiosFrom(files, retries) ==
    LET stream == OpenBios(files, retries, 0, 1, files[1].opens, <<BiosPaths[1]>>)
        f == files[stream.at]
    IN  IF ~stream.good THEN Outcome(Throws("runtime_error"), stream.tried)
        ELSE IF CheckPathIsRegularFile(f.kind)
             THEN Outcome(Throws("runtime_error"), stream.tried)
        ELSE IF f.size # BiosSize THEN Outcome(Throws("runtime_error"), stream.tried)
        ELSE Outcome(Returns([words |-> f.size \div WordBytes,
                              path |-> BiosPaths[stream.at]]), stream.tried)

\* The mutation of LoadGbaBios that gives up one directory earlier.
LoadGbaBiosOneRetry(files) == BiosFrom(files, BiosRetries - 1)

LoadGbaBios(files) == BiosFrom(files, BiosRetries)

InitBios ==
    /\ bios_files \in [1 .. (BiosRetries + 1) -> BiosCandidates]
    /\ out = NotCalled

CallLoadGbaBios ==
    /\ out.fn = "none"
    /\ out' = [fn |-> "LoadGbaBios", result |-> LoadGbaBios(bios_files).result,
               examined |-> LoadGbaBios(bios_files).examined]
    /\ UNCHANGED <<rom_file, rom_path, save_in, bios_files, rom>>

(* Gb::CartridgeHeader *)

Bytes == 0 .. 255

\* The members as the class declares them, before the constructor's body runs.
Declared ==
    [console |-> "unassigned", game_mode |-> "unassigned", num_rom_banks |-> 0,
     ram_size |-> 0, mbc_mode |-> "unassigned", ext_ram_present |-> "unassigned",
     rtc_present |-> "declared", rumble_present |-> "declared"]

\* 0x8000 << n for the shifts the header's ROM size byte is tried with.
RECURSIVE ShiftLeft(_, _)
ShiftLeft(v, n) == IF n = 0 THEN v ELSE ShiftLeft(2 * v, n - 1)

GetRAMSize(h, image) ==
    CASE image.x0149 = 0 -> Returns([h EXCEPT !.ram_size = 0])
      [] image.x0149 = 1 -> Returns([h EXCEPT !.ram_size = 2048])
      [] image.x0149 = 2 -> Returns([h EXCEPT !.ram_size = 8192])
      [] image.x0149 = 3 -> Returns([h EXCEPT !.ram_size = 32768])
      [] image.x0149 = 4 -> Returns([h EXCEPT !.ram_size = 131072])
      [] image.x0149 = 5 -> Returns([h EXCEPT !.ram_size = 65536])
      [] OTHER -> Throws("runtime_error")

Mbc(h, mode, ram) == [h EXCEPT !.mbc_mode = mode, !.ext_ram_present = ram]

\* The mutation of GetMBCType that takes a HuC1 cartridge (0xFF) for an MBC1 with RAM.
GetMBCTypeHuC1(h, image) ==
    LET t == image.x0147
    IN  CASE t = 0 -> Returns(Mbc(h, "None", FALSE))
          [] t = 1 -> Returns(Mbc(h, "MBC1", FALSE))
          [] t \in {2, 3, 255} -> Returns(Mbc(h, "MBC1", TRUE))
          [] t = 5 -> Returns(Mbc(h, "MBC2", FALSE))
          [] t = 6 -> Returns(Mbc(h, "MBC2", TRUE))
          [] t \in {8, 9} -> Returns(Mbc(h, "None", TRUE))
          [] t = 11 -> Throws("runtime_error")
          [] t \in {12, 13} -> Throws("runtime_error")
          [] t = 15 -> Returns([Mbc(h, "MBC3", FALSE) EXCEPT !.rtc_present = TRUE])
          [] t = 16 -> Returns([Mbc(h, "MBC3", TRUE) EXCEPT !.rtc_present = TRUE])
          [] t = 17 -> Returns(Mbc(h, "MBC3", FALSE))
          [] t \in {18, 19} -> Returns(Mbc(h, "MBC3", TRUE))
          [] t = 25 -> Returns(Mbc(h, "MBC5", FALSE))
          [] t = 28 -> Returns([Mbc(h, "MBC5", FALSE) EXCEPT !.rumble_present = TRUE])
          [] t \in {26, 27} -> Returns(Mbc(h, "MBC5", TRUE))
          [] t \in {29, 30} ->
                 Returns([Mbc(h, "MBC5", TRUE) EXCEPT !.rumble_present = TRUE])
          [] t = 32 -> Throws("runtime_error")
          [] t = 34 -> Throws("runtime_error")
          [] t = 252 -> Throws("runtime_error")
          [] t = 253 -> Throws("runtime_error")
          [] t = 254 -> Throws("runtime_error")
          [] OTHER -> Throws("runtime_error")

GetMBCType(h, image) ==
    LET t == image.x0147
    IN  CASE t = 0 -> Returns(Mbc(h, "None", FALSE))
          [] t = 1 -> Returns(Mbc(h, "MBC1", FALSE))
          [] t \in {2, 3} -> Returns(Mbc(h, "MBC1", TRUE))
          [] t = 5 -> Returns(Mbc(h, "MBC2", FALSE))
          [] t = 6 -> Returns(Mbc(h, "MBC2", TRUE))
          [] t \in {8, 9} -> Returns(Mbc(h, "None", TRUE))
          [] t = 11 -> Throws("runtime_error")
          [] t \in {12, 13} -> Throws("runtime_error")
          [] t = 15 -> Returns([Mbc(h, "MBC3", FALSE) EXCEPT !.rtc_present = TRUE])
          [] t = 16 -> Returns([Mbc(h, "MBC3", TRUE) EXCEPT !.rtc_present = TRUE])
          [] t = 17 -> Returns(Mbc(h, "MBC3", FALSE))
          [] t \in {18, 19} -> Returns(Mbc(h, "MBC3", TRUE))
          [] t = 25 -> Returns(Mbc(h, "MBC5", FALSE))
          [] t = 28 -> Returns([Mbc(h, "MBC5", FALSE) EXCEPT !.rumble_present = TRUE])
          [] t \in {26, 27} -> Returns(Mbc(h, "MBC5", TRUE))
          [] t \in {29, 30} ->
                 Returns([Mbc(h, "MBC5", TRUE) EXCEPT !.rumble_present = TRUE])
          [] t = 32 -> Throws("runtime_error")
          [] t = 34 -> Throws("runtime_error")
          [] t = 252 -> Throws("runtime_error")
          [] t = 253 -> Throws("runtime_error")
          [] t = 254 -> Throws("runtime_error")
          [] t = 255 -> Throws("runtime_error")
          [] OTHER -> Throws("runtime_error")

\* The constructor: console and game mode, ROM banks, RAM size, MBC type (the logo
\* and checksum checks only print warnings), then the multicart and MBC2 fix-ups.
CartridgeHeader(console, image, multicart_requested) ==
    LET cgb_flag == image.x0143 = 192 \/ image.x0143 = 128
        chosen == IF console = "Default"
                  THEN IF cgb_flag THEN "CGB" ELSE "DMG"
                  ELSE console
        h0 == [Declared EXCEPT
                 !.console = chosen,
                 !.game_mode = IF chosen = "CGB" /\ cgb_flag THEN "CGB" ELSE "DMG",
                 !.num_rom_banks = ShiftLeft(32768, image.x0148) \div 16384]
        sized == GetRAMSize(h0, image)
    IN  IF sized.kind # "ok" THEN sized
        ELSE LET typed == GetMBCType(sized.value, image)
             IN  IF typed.kind # "ok" THEN typed
                 ELSE LET h1 == typed.value
                          h2 == IF h1.mbc_mode = "MBC1" /\ multicart_requested
                                THEN [h1 EXCEPT !.mbc_mode = "MBC1M"]
                                ELSE h1
                      IN  Returns(IF h2.mbc_mode = "MBC2" /\ h2.ext_ram_present
                                  THEN [h2 EXCEPT !.ram_size = 512]
                                  ELSE h2)

\* The header bytes the constructor reads: every MBC type byte, the RAM size bytes
\* 0 to 6 and 0xFF, the three kinds of CGB flag and two ROM sizes.
InitCart ==
    /\ rom \in [console : {"Default", "DMG", "CGB"},
                 multicart_requested : BOOLEAN,
                 image : [x0143 : {0, 128, 192}, x0147 : Bytes, x0148 : {0, 1},
                          x0149 : (0 .. 6) \cup {255}]]
    /\ out = NotCalled

ConstructCartridgeHeader ==
    /\ out.fn = "none"
    /\ out' = [fn |-> "CartridgeHeader",
               result |-> CartridgeHeader(rom.console, rom.image,
                                          rom.multicart_requested),
               examined |-> <<>>]
    /\ UNCHANGED <<rom_file, rom_path, save_in, bios_files, rom>>

-----------------------------------------------------------------------------
IdleLoop ==
    /\ loop_pc = "off" /\ quit = FALSE /\ pause = FALSE /\ old_pause = FALSE
    /\ frame_advance = FALSE /\ overspent_cycles = 0
    /\ frames = 0 /\ last_target = 0 /\ last_ret = 0 /\ prev_ret = 0
    /\ total_cycles = 0 /\ last_iter = "none"

IdleHalt == hc = [lcd_next |-> 0, timer_next |-> [id \in TimerIds |-> 0], ie |-> {},
                  remaining |-> 0, result |-> 0, called |-> FALSE]

IdleOpts == tokens = <<>> /\ opt = [fn |-> "none", result |-> Returns(0)]

IdleExec == InitUnloaded

IdleRomFile ==
    rom_file = [opens |-> FALSE, kind |-> "regular", size |-> 0,
                gba_logo |-> FALSE, gb_logo |-> FALSE]

IdleRomPath == rom_path = <<>>

IdleSave == save_in = "none"

IdleBios == bios_files = <<>>

IdleCart == rom = "none"

IdleHost ==
    IdleRomFile /\ IdleRomPath /\ IdleSave /\ IdleBios /\ IdleCart /\ out = NotCalled

IdleCore == IdleExec /\ IdleLoop /\ IdleHalt /\ IdleOpts

InitExec == InitCore /\ IdleLoop /\ IdleHalt /\ IdleOpts /\ IdleHost

InitExecFair == InitUnloaded /\ IdleLoop /\ IdleHalt /\ IdleOpts /\ IdleHost

NextExec ==
    \/ CallExecute /\ UNCHANGED <<loopVars, hc, optVars, hostVars>>
    \/ ExecLoop /\ UNCHANGED <<loopVars, hc, optVars, hostVars>>
    \/ ExecReturn /\ UNCHANGED <<loopVars, hc, optVars, hostVars>>

SpecExec == InitExec /\ [][NextExec]_vars

NextExecFair ==
    \/ LoadProgram /\ UNCHANGED <<loopVars, hc, optVars, hostVars>>
    \/ NextExec

NextHalt == CallHaltCycles /\ UNCHANGED <<execVars, loopVars, optVars, hostVars>>

InitOnlyHalt == InitHalt /\ IdleExec /\ IdleLoop /\ IdleOpts /\ IdleHost

SpecHalt == InitOnlyHalt /\ [][NextHalt]_vars

NextLoop ==
    \/ LoopTest /\ UNCHANGED <<execVars, hc, optVars, hostVars>>
    \/ OnQuit /\ UNCHANGED <<execVars, hc, optVars, hostVars>>
    \/ OnPause /\ UNCHANGED <<execVars, hc, optVars, hostVars>>
    \/ OnHideWindow /\ UNCHANGED <<execVars, hc, optVars, hostVars>>
    \/ OnShowWindow /\ UNCHANGED <<execVars, hc, optVars, hostVars>>
    \/ OnFrameAdvance /\ UNCHANGED <<execVars, hc, optVars, hostVars>>
    \/ LoopPaused /\ UNCHANGED <<execVars, hc, optVars, hostVars>>
    \/ LoopFrame /\ UNCHANGED <<execVars, hc, optVars, hostVars>>

InitOnlyLoop == InitLoop /\ IdleExec /\ IdleHalt /\ IdleOpts /\ IdleHost

SpecLoop == InitOnlyLoop /\ [][NextLoop]_vars

NextOpts ==
    \/ CallGetPixelScale /\ UNCHANGED <<execVars, loopVars, hc, hostVars>>
    \/ CallGetLogLevel /\ UNCHANGED <<execVars, loopVars, hc, hostVars>>

InitOnlyOpts == InitOpts /\ IdleExec /\ IdleLoop /\ IdleHalt /\ IdleHost

SpecOpts == InitOnlyOpts /\ [][NextOpts]_vars

InitOnlyConsole == InitConsole /\ IdleExec /\ IdleLoop /\ IdleHalt /\ IdleHost

NextConsole == CallGetGameBoyType /\ UNCHANGED <<execVars, loopVars, hc, hostVars>>

SpecConsole == InitOnlyConsole /\ [][NextConsole]_vars

InitOnlyRomFile ==
    InitRomFile /\ IdleRomPath /\ IdleSave /\ IdleBios /\ IdleCart /\ IdleCore

NextRomFile == CallCheckRomFile /\ UNCHANGED <<execVars, loopVars, hc, optVars>>

SpecRomFile == InitOnlyRomFile /\ [][NextRomFile]_vars

InitOnlyRomPath ==
    InitRomPath /\ IdleRomFile /\ IdleSave /\ IdleBios /\ IdleCart /\ IdleCore

NextRomPath == CallSaveGamePath /\ UNCHANGED <<execVars, loopVars, hc, optVars>>

SpecRomPath == InitOnlyRomPath /\ [][NextRomPath]_vars

InitOnlySave ==
    InitSave /\ IdleRomFile /\ IdleRomPath /\ IdleBios /\ IdleCart /\ IdleCore

NextSave == CallLoadSaveGame /\ UNCHANGED <<execVars, loopVars, hc, optVars>>

SpecSave == InitOnlySave /\ [][NextSave]_vars

InitOnlyBios ==
    InitBios /\ IdleRomFile /\ IdleRomPath /\ IdleSave /\ IdleCart /\ IdleCore

NextBios == CallLoadGbaBios /\ UNCHANGED <<execVars, loopVars, hc, optVars>>

SpecBios == InitOnlyBios /\ [][NextBios]_vars

InitOnlyCart ==
    InitCart /\ IdleRomFile /\ IdleRomPath /\ IdleSave /\ IdleBios /\ IdleCore

NextCart == ConstructCartridgeHeader /\ UNCHANGED <<execVars, loopVars, hc, optVars>>

SpecCart == InitOnlyCart /\ [][NextCart]_vars

SpecExecFair == InitExecFair /\ [][NextExecFair]_vars /\ WF_vars(NextExec)

-----------------------------------------------------------------------------
(* Claims about Cpu::Execute and the halt fast-forward *)

Returned == call >= 1 /\ ~executing

Kinds(k) == {i \in 1 .. Len(steps) : steps[i][1] = k}

\* The peripherals' part of the hardware state.
Peripherals(m) == [lcd |-> m.lcd, timers |-> m.timers, iflags |-> m.iflags]

\* Single-stepping a halted core: one cycle per tick, an interrupt check after each.
RECURSIVE SingleStepWake(_, _, _)
SingleStepWake(m, k, limit) ==
    IF k >= limit THEN [m |-> m, at |-> k]
    ELSE LET m1 == UpdateHardware(m, 1)
         IN  IF InterruptPending(m1) THEN [m |-> m1, at |-> k + 1]
             ELSE SingleStepWake(m1, k + 1, limit)

\* The last step was a halt fast-forward step that woke the core, and the halt
\* had begun with no interrupt pending.
JustWoke ==
    /\ steps # <<>>
    /\ steps[Len(steps)][1] = "halt"
    /\ ~core.halted
    /\ ~InterruptPending(halt_snap.m)

\* C3 (as claimed): Execute(t1) then Execute(t2 + r1) consumes exactly as many
\* cycles as Execute(t1 + t2) from the same hardware state.
C3_SplitInvariance ==
    (call = 2 /\ ~executing) => consumed = RunExecute(core0, 0, t1 + t2).cycles

\* C5 (as claimed): when a halt fast-forward wakes the core, the peripherals are in
\* the state, and the wake is at the cycle, that single-stepping from the start of
\* the halt with an interrupt check after every cycle arrives at.
C5_FastForwardEquivalent ==
    JustWoke =>
        LET elapsed == SumCosts(steps) - halt_snap.at
            ref == SingleStepWake(halt_snap.m, 0, elapsed)
        IN  /\ ref.at = elapsed
            /\ Peripherals(ref.m) = Peripherals(core)

\* The cycles collaborator p received, in order.
Received(p) ==
    LET Is(e) == e[1] = p IN SelectSeq(core.log, Is)

\* The collaborators UpdateHardware ticks, in its order.
Ticked == <<"lcd", "timer0", "timer1", "timer2", "timer3", "save">>

\* The peripherals the core owns: the LCD, the timers, the DMA channels, the serial port.
AllPeripherals ==
    {"lcd", "timer0", "timer1", "timer2", "timer3", "dma0", "dma1", "dma2", "dma3", "serial"}

Costs(s) == [i \in 1 .. Len(s) |-> s[i][2]]

\* The tick log that one tick of every ticked collaborator per step, in step order, leaves.
RECURSIVE ExpectedLog(_)
ExpectedLog(s) ==
    IF s = <<>> THEN <<>>
    ELSE [i \in 1 .. Len(Ticked) |-> <<Ticked[i], s[1][2]>>] \o ExpectedLog(Tail(s))

\* C2: every Execute call returns zero or less: it consumed at least its target,
\* whatever mix of instructions and halt fast-forward steps it ran.
C2_ReturnNotPositive ==
    Returned => /\ ret <= 0
                /\ cycles >= target_cycles
                /\ ret = target_cycles - cycles

C2_Witness ==
    /\ call = 2 /\ ~executing
    /\ ret < 0
    /\ Kinds("halt") # {} /\ Kinds("instr") # {}

\* C6: every ticked collaborator (LCD, four timers, delayed save) has received in
\* total exactly the cycles the CPU's steps reported.
C6_CycleConservation ==
    \A i \in 1 .. Len(Ticked) : SumCosts(Received(Ticked[i])) = SumCosts(steps)

C6_Witness ==
    /\ Len(steps) >= 3
    /\ Kinds("halt") # {} /\ Kinds("instr") # {}
    /\ SumCosts(steps) > Len(steps)

\* C7 (as claimed): every peripheral of the core (timers, video, DMA, serial) is
\* ticked exactly once per step, in step order.
C7_EveryPeripheralTicked ==
    \A p \in AllPeripherals : Costs(Received(p)) = Costs(steps)

\* C7 (amended): every step ticks the LCD, timers 0 to 3 and the delayed save,
\* each exactly once with the step's cycles and in this order, before the next
\* step; the DMA channels and the serial port are never ticked.
C7_TickedOncePerStepInOrder ==
    /\ core.log = ExpectedLog(steps)
    /\ \A i \in 1 .. Len(steps) : steps[i][2] >= 1

C7_Witness ==
    /\ Len(steps) >= 2
    /\ steps[1][1] = "instr" /\ steps[2][1] = "halt"
    /\ steps[1][2] # steps[2][2]

\* C8: every step of Execute advances the cycle counter by at least 1, the counter
\* never passes the target by a whole step, and every call returns.
C8_ExecuteTerminates ==
    /\ [][steps' # steps => (cycles' > cycles /\ cycles < target_cycles)]_vars
    /\ (executing ~> ~executing)

C8_Witness ==
    /\ call = 2 /\ ~executing
    /\ core.halted /\ core.ie = {}
    /\ Cardinality(Kinds("halt")) >= 2

-----------------------------------------------------------------------------
(* Claims about Core::HaltCycles and Core::EmulatorLoop *)

\* The events reported for a halt: the LCD's, and those of the timers whose
\* interrupt is enabled and that report one.
ReportedEvents ==
    {hc.lcd_next} \cup {hc.timer_next[id] : id \in {i \in hc.ie : hc.timer_next[i] # 0}}

MinOf(S) == CHOOSE x \in S : \A y \in S : x <= y

\* C4 (as claimed): HaltCycles returns the minimum of the reported cycles until the
\* next event, clamped to at least 1 and to at most the remaining budget.
C4_HaltCyclesIsClampedMinimum ==
    hc.called => hc.result = Min(Max(MinOf(ReportedEvents), 1), hc.remaining)

\* The timers that do not count for a halt: interrupt not enabled, or reporting 0.
Ineligible == {id \in TimerIds : id \notin hc.ie \/ hc.timer_next[id] = 0}

C1_OverspendCarried ==
    /\ overspent_cycles = last_ret
    /\ frames >= 1 => last_target = cycles_per_frame + prev_ret
    /\ total_cycles = frames * cycles_per_frame - last_ret

C1_Witness ==
    /\ frames >= 2
    /\ prev_ret < 0 /\ last_ret < 0 /\ prev_ret # last_ret
    /\ last_iter = "paused"

-----------------------------------------------------------------------------
(* Claims about the option parsers *)

\* The numbers the help text documents for -s.
DocumentedScales == 1 .. 15

\* C9 (as claimed): GetPixelScale returns 2 when no -s parameter is given, and with
\* -s N returns N only if N is in 1..15 and throws std::invalid_argument otherwise.
C9_PixelScaleInDocumentedRange ==
    opt.fn = "GetPixelScale" =>
        IF GetOptionParam(tokens, OptS) = <<>>
        THEN opt.result = Returns(2)
        ELSE \/ opt.result.kind = "ok" /\ opt.result.value \in DocumentedScales
             \/ opt.result = Throws("invalid_argument")

\* The log level each name stands for.
NamedLevel(str) ==
    IF str = StrTrace THEN "Trace"
    ELSE IF str \in {StrRegs, StrRegisters} THEN "Registers"
    ELSE IF str = StrTimer THEN "Timer"
    ELSE IF str = StrLcd THEN "LCD"
    ELSE "unnamed"

\* C10 (as claimed): GetLogLevel returns None without -l, the named level when -l
\* is followed by one, and Trace whenever -l has no recognised level after it,
\* wherever -l stands in the argument list.
C10_LogLevelDefaultsToTrace ==
    opt.fn = "GetLogLevel" =>
        LET at == Find(tokens, OptL, 1)
            named == IF at < Len(tokens) THEN NamedLevel(tokens[at + 1]) ELSE "unnamed"
        IN  opt.result = IF at > Len(tokens) THEN Returns("None")
                         ELSE IF named # "unnamed" THEN Returns(named)
                         ELSE Returns("Trace")

\* The console each documented name stands for.
NamedConsole(str) ==
    IF str = StrDmg THEN "DMG"
    ELSE IF str = StrCgb THEN "CGB"
    ELSE IF str = StrAgb THEN "AGB"
    ELSE "unnamed"

\* The argument following the first occurrence of option, empty when there is none.
ParamAfter(toks, option) ==
    LET at == Find(toks, option, 1)
    IN  IF at < Len(toks) THEN toks[at + 1] ELSE <<>>

\* C11: GetGameBoyType returns DMG, CGB, AGB for "-m dmg", "-m cgb", "-m agb",
\* Default when no -m parameter is present, and throws std::invalid_argument for
\* every other non-empty parameter, so no console is returned for an unrecognised
\* string.
C11_ConsoleNamesOnly ==
    opt.fn = "GetGameBoyType" =>
        LET param == ParamAfter(tokens, OptM)
        IN  /\ opt.result = IF param = <<>> THEN Returns("Default")
                            ELSE IF NamedConsole(param) # "unnamed"
                                 THEN Returns(NamedConsole(param))
                            ELSE Throws("invalid_argument")
            /\ (opt.result.kind = "ok" /\ opt.result.value # "Default")
                   => param \in {StrDmg, StrCgb, StrAgb}

C11_Witness ==
    /\ opt.fn = "GetGameBoyType"
    /\ opt.result = Throws("invalid_argument")
    /\ ParamAfter(tokens, OptM) = <<"g", "b", "a">>
    /\ Len(tokens) = 3

-----------------------------------------------------------------------------
(* Claims about the file checks *)

\* C12: CheckRomFile throws std::runtime_error for every file larger than 0x2000000
\* or smaller than 0x134 bytes, and does so before any logo is examined; it returns
\* AGB when the GBA logo check passes, CGB only when the Game Boy logo check passes
\* and the size is at least 0x8000, and throws for a file with neither logo.
C12_RomFileChecks ==
    out.fn = "CheckRomFile" =>
        LET readable == rom_file.opens /\ rom_file.kind = "regular"
            sized == rom_file.size <= MaxRomSize /\ rom_file.size >= MinRomSize
        IN  /\ out.result \in {Returns("AGB"), Returns("CGB"), Throws("runtime_error")}
            /\ ~sized => out.result = Throws("runtime_error") /\ out.examined = <<>>
            /\ (readable /\ sized /\ rom_file.gba_logo) => out.result = Returns("AGB")
            /\ out.result = Returns("AGB") => rom_file.gba_logo
            /\ out.result = Returns("CGB")
                   => rom_file.gb_logo /\ rom_file.size >= MinGbRomSize
            /\ (~rom_file.gba_logo /\ ~rom_file.gb_logo)
                   => out.result = Throws("runtime_error")

C12_Witness ==
    /\ out.fn = "CheckRomFile"
    /\ rom_file.opens /\ rom_file.kind = "regular"
    /\ rom_file.gb_logo /\ ~rom_file.gba_logo
    /\ rom_file.size = MinGbRomSize - 1
    /\ out.result = Throws("runtime_error")
    /\ out.examined = <<"gba", "gb">>

\* The positions of the dots of a path.
Dots(path) == {i \in 1 .. Len(path) : path[i] = "."}

\* C13: SaveGamePath returns the path with everything from its last '.' replaced by
\* ".sav"; it throws std::runtime_error when the path has no '.' and when the text
\* from the last '.' is exactly ".sav"; so it never returns its input, and applied
\* to its own result it throws.
C13_SaveGamePath ==
    out.fn = "SaveGamePath" =>
        IF Dots(rom_path) = {} THEN out.result = Throws("runtime_error")
        ELSE LET last == CHOOSE i \in Dots(rom_path) : \A j \in Dots(rom_path) : j <= i
                 ext == [i \in 1 .. (Len(rom_path) - last + 1) |-> rom_path[last + i - 1]]
                 stem == [i \in 1 .. (last - 1) |-> rom_path[i]]
             IN  IF ext = StrDotSav THEN out.result = Throws("runtime_error")
                 ELSE /\ out.result = Returns(stem \o StrDotSav)
                      /\ out.result.value # rom_path
                      /\ SaveGamePath(out.result.value) = Throws("runtime_error")

C13_Witness ==
    /\ out.fn = "SaveGamePath"
    /\ rom_path = <<"a", ".", "s", ".", "v">>
    /\ out.result = Returns(<<"a", ".", "s", ".", "s", "a", "v">>)

\* C14: LoadSaveGame returns an empty vector when the cartridge has no external RAM;
\* a non-empty save file is returned only if its size is ram_size, or ram_size + 0x30
\* when an RTC is present and the size modulo 0x400 is 0x30, and std::runtime_error
\* is thrown otherwise; a missing or empty save file gives ram_size zero bytes.
C14_SaveGameSize ==
    out.fn = "LoadSaveGame" =>
        LET h == save_in.header
            f == save_in.file
            fits == \/ f.size = h.ram_size
                    \/ /\ h.rtc_present
                       /\ f.size % RtcSaveModulus = RtcSaveSize
                       /\ f.size = h.ram_size + RtcSaveSize
        IN  IF ~h.ext_ram_present THEN out.result = Returns(Vector(0, "zeros"))
            ELSE IF ~f.opens \/ (f.kind = "regular" /\ f.size = 0)
                 THEN out.result = Returns(Vector(h.ram_size, "zeros"))
            ELSE IF f.kind = "regular" /\ fits
                 THEN out.result = Returns(Vector(f.size, "file"))
            ELSE out.result = Throws("runtime_error")

C14_Witness ==
    /\ out.fn = "LoadSaveGame"
    /\ save_in.header.ext_ram_present /\ save_in.header.rtc_present
    /\ save_in.header.ram_size = 8192
    /\ save_in.file.size = 8192 + RtcSaveSize
    /\ out.result = Returns(Vector(8192 + RtcSaveSize, "file"))

\* C15: LoadGbaBios tries gba_bios.bin, ../gba_bios.bin and ../../gba_bios.bin in
\* that order and uses the first that opens; it throws std::runtime_error when none
\* opens or when the chosen file is not exactly 0x4000 bytes, and on success returns
\* exactly 0x1000 32-bit words.
C15_BiosSearch ==
    out.fn = "LoadGbaBios" =>
        LET opening == {i \in DOMAIN bios_files : bios_files[i].opens}
        IN  IF opening = {}
            THEN /\ out.result = Throws("runtime_error")
                 /\ out.examined = BiosPaths
            ELSE LET first == CHOOSE i \in opening : \A j \in opening : i <= j
                     chosen == bios_files[first]
                 IN  /\ out.examined = [i \in 1 .. first |-> BiosPaths[i]]
                     /\ IF chosen.kind = "regular" /\ chosen.size = 16384
                        THEN out.result =
                                 Returns([words |-> 4096, path |-> BiosPaths[first]])
                        ELSE out.result = Throws("runtime_error")

C15_Witness ==
    /\ out.fn = "LoadGbaBios"
    /\ ~bios_files[1].opens /\ ~bios_files[2].opens
    /\ out.result = Returns([words |-> 4096, path |-> "../../gba_bios.bin"])

-----------------------------------------------------------------------------
(* Claims about the cartridge header *)

\* The MBC type bytes the constructor has a memory bank controller for.
ImplementedMbcTypes == {0, 1, 2, 3, 5, 6, 8, 9, 15, 16, 17, 18, 19, 25, 26, 27, 28, 29, 30}

\* The RAM size bytes the header format defines.
DefinedRamSizes == 0 .. 5

MbcModes == {"None", "MBC1", "MBC1M", "MBC2", "MBC3", "MBC5"}

\* C16: the CartridgeHeader constructor throws std::runtime_error for every RAM size
\* byte outside 0x00-0x05 and for every MBC type byte that is unimplemented or
\* unrecognised; for every accepted MBC type byte (with a defined RAM size) it
\* completes with mbc_mode and ext_ram_present both assigned.
C16_MalformedHeaderThrows ==
    out.fn = "CartridgeHeader" =>
        /\ rom.image.x0149 \notin DefinedRamSizes
               => out.result = Throws("runtime_error")
        /\ rom.image.x0147 \notin ImplementedMbcTypes
               => out.result = Throws("runtime_error")
        /\ (rom.image.x0147 \in ImplementedMbcTypes
               /\ rom.image.x0149 \in DefinedRamSizes)
               => /\ out.result.kind = "ok"
                  /\ out.result.value.mbc_mode \in MbcModes
                  /\ out.result.value.ext_ram_present \in BOOLEAN

C16_Witness ==
    /\ out.fn = "CartridgeHeader"
    /\ rom.image.x0147 = 6 /\ rom.image.x0149 = 0
    /\ out.result.kind = "ok"
    /\ out.result.value.mbc_mode = "MBC2"
    /\ out.result.value.ext_ram_present = TRUE
    /\ out.result.value.ram_size = 512

====
